---- MODULE Spec2Model ----
(***************************************************************************)
(* ReScale: the resize pipeline of src/index.ts and src/src/rescale.ts.    *)
(*                                                                         *)
(* A JavaScript string is a sequence of one-character strings, so that     *)
(* includes, split and parseInt are computed character by character.       *)
(* A number that may be NaN is a record [isNaN, value]; a Buffer that may  *)
(* be undefined is a record [defined, length]; a ratio is a pair <<n, d>>  *)
(* standing for n / d.  An error message is a sequence of text segments.   *)
(***************************************************************************)
EXTENDS Integers, Sequences, FiniteSets, TLC

\* ------------------------------------------------------------------ bounds

\* Longest free-form resolution string that is tried (presets are longer).
MaxLen == 4
\* Largest length of the buffer the resize transform produces.
MaxBuf == 3
\* Largest metadata.size the decoder reports.
MaxSize == 3
\* Longest free-form --resolution value tried in a process run.
MaxCliLen == 3

\* Characters free-form resolution strings are made of.
Alphabet == {"0", "1", "2", "x", "-", "a", " "}

\* All strings over Alphabet of length at most n.
Strings(n) == UNION {[1..k -> Alphabet] : k \in 0..n}

\* ------------------------------------------------------- resolutions.ts

resolutions ==
    << <<"3","2","0","x","2","4","0">>,
       <<"6","4","0","x","4","8","0">>,
       <<"8","0","0","x","6","0","0">>,
       <<"1","0","2","4","x","7","6","8">>,
       <<"1","2","8","0","x","7","2","0">>,
       <<"1","2","8","0","x","8","0","0">>,
       <<"1","3","6","6","x","7","6","8">>,
       <<"1","6","0","0","x","9","0","0">>,
       <<"1","9","2","0","x","1","0","8","0">>,
       <<"2","0","4","8","x","1","0","8","0">>,
       <<"2","5","6","0","x","1","0","8","0">>,
       <<"2","5","6","0","x","1","4","4","0">>,
       <<"3","4","4","0","x","1","4","4","0">>,
       <<"3","8","4","0","x","1","6","0","0">>,
       <<"3","8","4","0","x","2","1","6","0">>,
       <<"4","0","9","6","x","2","1","6","0">>,
       <<"5","1","2","0","x","2","1","6","0">>,
       <<"5","1","2","0","x","2","8","8","0">>,
       <<"6","0","1","6","x","3","3","8","4">>,
       <<"6","1","4","4","x","3","1","6","0">>,
       <<"7","6","8","0","x","4","3","2","0">>,
       <<"8","1","9","2","x","4","3","2","0">>
    >>

Presets == {resolutions[i] : i \in 1..Len(resolutions)}

\* --------------------------------------------- String.prototype helpers

\* s.includes(c) for a one-character c.
Includes(s, c) == \E i \in 1..Len(s) : s[i] = c

RECURSIVE SplitFrom(_, _, _, _)
SplitFrom(s, i, cur, out) ==
    IF i > Len(s) THEN Append(out, cur)
    ELSE IF s[i] = "x" THEN SplitFrom(s, i + 1, <<>>, Append(out, cur))
    ELSE SplitFrom(s, i + 1, Append(cur, s[i]), out)

\* s.split("x"): the pieces between the separators, empty pieces kept.
Split(s) == SplitFrom(s, 1, <<>>, <<>>)

\* ------------------------------------------------------------- parseInt

NaN == [isNaN |-> TRUE, value |-> 0]
Num(v) == [isNaN |-> FALSE, value |-> v]

\* The characters parseInt skips before the number: the WhiteSpace and
\* LineTerminator characters of ECMAScript.  TAB, LF, CR and FF are written
\* with their escapes, VT, NBSP, ZWNBSP and U+1680 as themselves, and a
\* character that cannot stand in a string of this module is written by the
\* name of its code point.
WhiteSpace ==
    {"\t", "\f", " ", "", " ", "﻿", " ",
     "U+2000", "U+2001", "U+2002", "U+2003", "U+2004", "U+2005",
     "U+2006", "U+2007", "U+2008", "U+2009", "U+200A",
     "U+202F", "U+205F", "U+3000"}
LineTerminators == {"\n", "\r", "U+2028", "U+2029"}
StrWhiteSpaceChars == WhiteSpace \cup LineTerminators

HexDigits == {"0","1","2","3","4","5","6","7","8","9",
              "a","b","c","d","e","f","A","B","C","D","E","F"}

DigitVal(c) ==
    CASE c = "0" -> 0 [] c = "1" -> 1 [] c = "2" -> 2 [] c = "3" -> 3
      [] c = "4" -> 4 [] c = "5" -> 5 [] c = "6" -> 6 [] c = "7" -> 7
      [] c = "8" -> 8 [] c = "9" -> 9
      [] c \in {"a", "A"} -> 10 [] c \in {"b", "B"} -> 11
      [] c \in {"c", "C"} -> 12 [] c \in {"d", "D"} -> 13
      [] c \in {"e", "E"} -> 14 [] c \in {"f", "F"} -> 15

\* A digit of the given radix (10 or 16).
IsDigit(c, radix) == c \in HexDigits /\ DigitVal(c) < radix

RECURSIVE SkipWhiteSpace(_)
SkipWhiteSpace(s) ==
    IF s # <<>> /\ Head(s) \in StrWhiteSpaceChars THEN SkipWhiteSpace(Tail(s)) ELSE s

\* The value of the longest prefix of s made of digits; found says whether
\* at least one digit was read.
RECURSIVE ParseDigits(_, _, _, _)
ParseDigits(s, radix, acc, found) ==
    IF s # <<>> /\ IsDigit(Head(s), radix)
    THEN ParseDigits(Tail(s), radix, acc * radix + DigitVal(Head(s)), TRUE)
    ELSE [found |-> found, value |-> acc]

\* parseInt(s) without a radix argument: leading white space is skipped, a
\* sign is read, a 0x/0X prefix selects radix 16, then the longest run of
\* digits is read and whatever follows is ignored; no digit gives NaN.
\* (-0 === 0 in JavaScript, so a negative zero is the value 0.)  The value
\* is exact below 2^31, which covers every string tried and every preset.
ParseInt(s) ==
    LET t == SkipWhiteSpace(s)
        signed == t # <<>> /\ Head(t) \in {"+", "-"}
        sign == IF t # <<>> /\ Head(t) = "-" THEN -1 ELSE 1
        u == IF signed THEN Tail(t) ELSE t
        hex == Len(u) >= 2 /\ u[1] = "0" /\ u[2] \in {"x", "X"}
        radix == IF hex THEN 16 ELSE 10
        body == IF hex THEN Tail(Tail(u)) ELSE u
        r == ParseDigits(body, radix, 0, FALSE)
    IN  IF r.found THEN Num(sign * r.value) ELSE NaN

\* ------------------------------------------------------ error messages

Prefix == "[UPSCALER]"

\* `${error}` of an Error object: "Error: " followed by its message.
ErrorToString(msg) == <<"Error: ">> \o msg

MsgRequired == <<Prefix, " Resolution is required">>
MsgNoX == <<Prefix, " Resolution does not contain an x">>
MsgNotTwo == <<Prefix, " Resolution does not contain two values">>
MsgNotInteger ==
    <<Prefix, " Resolution does not contain integer values for the resolution or its NaN">>
MsgZero == <<Prefix, " Resolution is 0 or less">>

\* The message of the error thrown when the transform yields no buffer.
MsgUndefined(kind) ==
    IF kind = "video"
    THEN <<Prefix, " Failed to resize video. Might be undefined">>
    ELSE <<Prefix, " Failed to resize image. Might be undefined">>

\* The catch clause of upscaleImage / upscaleVideo.
WrapUpscale(kind, msg) ==
    IF kind = "video"
    THEN <<Prefix, " Failed to upscale video: ">> \o ErrorToString(msg)
    ELSE <<Prefix, " Failed to resize image: ">> \o ErrorToString(msg)

\* The catch clause of saveImage.
WrapWrite(msg) == <<Prefix, " Failed to write image: ">> \o ErrorToString(msg)

\* The catch clause of the top-level pipeline.
WrapProcess(msg) == <<Prefix, " Failed to process image: ">> \o ErrorToString(msg)

MsgImageRequired ==
    <<"Image is required. Use --image <image> to specify the image to upscale.">>
MsgResolutionRequired ==
    <<"Resolution is required. Use --resolution <resolution> to specify the resolution to upscale to.">>
MsgOutputRequired ==
    <<"Output is required. Use --output <output> to specify the output file.">>
\* The issues of the ZodError are the schema library's own text.
MsgInvalidArguments == <<Prefix, " Invalid arguments: ", "<zod issues>">>

\* Messages of the external collaborators' failures.
MsgSharp == <<"<sharp failure>">>
MsgBunWrite == <<"<Bun.write failure>">>

NoError == <<>>

\* --------------------------------------------------- resolution checks

Ok == [ok |-> TRUE, message |-> NoError]
Fail(msg) == [ok |-> FALSE, message |-> msg]

\* The six checks on the resolution string, in the order of the code; the
\* two "two values" checks throw the same message.
ValidateResolution(r) ==
    IF r = <<>> THEN Fail(MsgRequired)
    ELSE IF ~Includes(r, "x") THEN Fail(MsgNoX)
    ELSE LET t == Split(r) IN
         IF Len(t) # 2 THEN Fail(MsgNotTwo)
         ELSE IF t[1] = <<>> \/ t[2] = <<>> THEN Fail(MsgNotTwo)
         ELSE IF ParseInt(t[1]).isNaN \/ ParseInt(t[2]).isNaN
              THEN Fail(MsgNotInteger)
         ELSE IF ParseInt(t[1]).value = 0 \/ ParseInt(t[2]).value = 0
              THEN Fail(MsgZero)
         ELSE Ok

\* The string upscaleImage / upscaleVideo validate and split: the one in
\* parsedArgs; the resolution parameter is shadowed and never read.
ResolutionFromArgument(resolutionArg, pArgs) == resolutionArg
ValidatedResolution(resolutionArg, pArgs) == pArgs.resolution

\* const width = parseInt(resolution[0]); const height = parseInt(resolution[1])
Width(tokens) == ParseInt(tokens[1]).value
HeightFromFirstToken(tokens) == ParseInt(tokens[1]).value
Height(tokens) == ParseInt(tokens[2]).value

\* --------------------------------------------------------------- schema

\* A value of the minimist result: absent (undefined; for image, resolution
\* and output, which are only tested for truthiness first, also any other
\* falsy value), a string, a boolean, or another value (a number; for debug
\* and batch any value that is neither undefined nor a boolean, such as the
\* string of --debug true or the number of --batch 2).
Absent == [kind |-> "absent", text |-> <<>>]
Other == [kind |-> "other", text |-> <<>>]
Str(t) == [kind |-> "string", text |-> t]
Bool(b) == [kind |-> "boolean", text |-> IF b THEN <<"true">> ELSE <<"false">>]

\* JavaScript truthiness of such a value.
Truthy(v) ==
    \/ v.kind = "other"
    \/ (v.kind = "string" /\ v.text # <<>>)
    \/ v = Bool(TRUE)

\* zod.boolean().optional(): undefined or a boolean.
OptionalBoolean(v) == v.kind \in {"absent", "boolean"}

\* .default(false): the boolean given, false when undefined.
BooleanOrFalse(v) == v = Bool(TRUE)

\* schema.parse succeeds: image and output are strings, resolution is one
\* of the presets, debug and batch are booleans or undefined.
SchemaAcceptsAnyResolution(a) ==
    /\ a.image.kind = "string"
    /\ a.resolution.kind = "string"
    /\ a.output.kind = "string"
    /\ OptionalBoolean(a.debug)
    /\ OptionalBoolean(a.batch)
SchemaAccepts(a) ==
    /\ a.image.kind = "string"
    /\ a.resolution.kind = "string" /\ a.resolution.text \in Presets
    /\ a.output.kind = "string"
    /\ OptionalBoolean(a.debug)
    /\ OptionalBoolean(a.batch)

\* ------------------------------------------------------------- progress

Zero == <<0, 1>>
One == <<1, 1>>

\* Math.min(a, b) of two ratios with positive denominators.
RatMin(a, b) == IF a[1] * b[2] <= b[1] * a[2] THEN a ELSE b

\* The metadata the decoder reports: undefined, without a numeric size, or
\* with the size given.
NoMetadata == [defined |-> FALSE, numeric |-> FALSE, size |-> 0]
MetadataNoSize == [defined |-> TRUE, numeric |-> FALSE, size |-> 0]
Metadata(n) == [defined |-> TRUE, numeric |-> TRUE, size |-> n]

OriginalSize(metadata) ==
    IF ~metadata.defined THEN 0
    ELSE IF metadata.numeric THEN metadata.size ELSE 0

DenominatorSwapped(originalSize, length) ==
    IF originalSize > 0 THEN length ELSE originalSize
Denominator(originalSize, length) ==
    IF originalSize > 0 THEN originalSize ELSE length

RatioUnclamped(originalSize, length) ==
    LET denominator == Denominator(originalSize, length)
    IN  IF denominator > 0 THEN <<length, denominator>> ELSE One
Ratio(originalSize, length) ==
    LET denominator == Denominator(originalSize, length)
    IN  IF denominator > 0 THEN RatMin(One, <<length, denominator>>) ELSE One

\* ----------------------------------------------------- observable calls

Event(op, x, y, s) == [op |-> op, x |-> x, y |-> y, s |-> s]
Update(r) == Event("update", r[1], r[2], "")
Resize(w, h) == Event("resize", w, h, "")
ReadMetadata == Event("metadata", 0, 0, "")
Write(path, buffer) == Event("write", buffer.length, 0, path)
Log(text) == Event("log", 0, 0, text)

\* progressBar.update(ratio); progressBar.update(1)
CompletionUpdatesReversed(ratio) == <<Update(One), Update(ratio)>>
CompletionUpdatesRatioOnly(ratio) == <<Update(ratio)>>
CompletionUpdates(ratio) == <<Update(ratio), Update(One)>>

Undefined == [defined |-> FALSE, length |-> 0]
Buffer(n) == [defined |-> TRUE, length |-> n]

\* ---------------------------------------------------------- file system

ImagePath == <<"in.png">>
PathA == <<"a.png">>
PathB == <<"b.png">>
Paths == {PathA, PathB}

NoFile == [exists |-> FALSE, length |-> 0]
File(buffer) == [exists |-> TRUE, length |-> buffer.length]

\* ---------------------------------------------------------------- state

VARIABLES
    entry,        \* how the code is entered: "cli" (index.ts), or a direct
                  \* call of "image" (upscaleImage), "video" (upscaleVideo)
                  \* or "save" (saveImage)
    pc,           \* where the run is
    args,         \* the minimist result (cli)
    parsedArgs,   \* the parsedArgs object
    resolution,   \* the resolution parameter of upscaleImage / upscaleVideo
    output,       \* the output parameter of saveImage
    envDebug,     \* process.env.DEBUG === "true"
    buffer,       \* the buffer of the transform / upscaledImage / image
    metadata,     \* what image.metadata() resolved with
    calls,        \* the calls made on the collaborators, in order
    thrown,       \* the message of the error the caller receives
    cause,        \* the message of the failure that started it
    write,        \* the promise of Bun.write: none, pending, done, failed
    files,        \* the files on disk
    unhandled     \* the message of a rejection no one handles

vars == <<entry, pc, args, parsedArgs, resolution, output, envDebug, buffer,
          metadata, calls, thrown, cause, write, files, unhandled>>

\* The resolution strings tried: every short string and every preset.
ResolutionInputs == Strings(MaxLen) \cup Presets

\* The --resolution values tried in a process run.
CliResolutionInputs == Strings(MaxCliLen) \cup Presets

\* The values of a flag: not given, a boolean, or something else.
FlagValues == {Absent, Bool(FALSE), Bool(TRUE), Other}

\* Values of the resolution parameter, which the code never reads.
ResolutionArguments == {<<>>, <<"a">>, <<"1", "x", "2">>}

NoArgs == [image |-> Absent, resolution |-> Absent, output |-> Absent,
           debug |-> Absent, batch |-> Absent]
NoParsedArgs == [image |-> <<>>, resolution |-> <<>>, output |-> <<>>,
                 debug |-> FALSE, batch |-> FALSE]

Buffers == {Buffer(n) : n \in 0..MaxBuf}
\* (a size that is a number need not be positive: -1 stands for those)
MetadataValues ==
    {NoMetadata, MetadataNoSize} \cup {Metadata(n) : n \in (-1)..MaxSize}

InitCommon ==
    /\ metadata = NoMetadata
    /\ calls = <<>>
    /\ thrown = NoError
    /\ cause = NoError
    /\ write = "none"
    /\ files = [p \in Paths |-> NoFile]
    /\ unhandled = NoError

\* A process run: the flag parser's result is any combination of values.
InitCli ==
    /\ entry = "cli"
    /\ pc = "start"
    /\ args \in [image : {Absent, Other, Str(ImagePath)},
                 resolution : {Absent, Other}
                                  \cup {Str(t) : t \in CliResolutionInputs},
                 output : {Absent, Other, Str(PathA)},
                 debug : FlagValues,
                 batch : FlagValues]
    /\ parsedArgs = NoParsedArgs
    /\ resolution = <<>>
    /\ output = <<>>
    /\ envDebug = FALSE
    /\ buffer = Undefined

\* A direct call upscaleImage(image, resolution, parsedArgs) or
\* upscaleVideo(video, resolution, parsedArgs).
InitUpscale ==
    /\ entry \in {"image", "video"}
    /\ pc = "upscale"
    /\ args = NoArgs
    /\ parsedArgs \in [image : {ImagePath}, resolution : ResolutionInputs,
                       output : {PathA}, debug : {FALSE}, batch : {FALSE}]
    /\ resolution \in ResolutionArguments
    /\ output = <<>>
    /\ envDebug = FALSE
    /\ buffer = Undefined

\* A direct call saveImage(image, output, parsedArgs).
InitSave ==
    /\ entry = "save"
    /\ pc = "save"
    /\ args = NoArgs
    /\ parsedArgs \in [image : {ImagePath}, resolution : {resolutions[1]},
                       output : Paths, debug : {FALSE}, batch : {FALSE}]
    /\ resolution = <<>>
    /\ output \in Paths
    /\ envDebug \in BOOLEAN
    /\ buffer \in {Undefined} \cup Buffers

Init == InitCommon /\ (InitCli \/ InitUpscale \/ InitSave)

\* ------------------------------------------------- index.ts, top level

\* process.env.DEBUG === "true" guards every console.log.
DebugLog(text) == IF envDebug THEN <<Log(text)>> ELSE <<>>

\* The three presence checks; each throws out of the module, uncaught.
CheckArgs ==
    /\ pc = "start"
    /\ IF ~Truthy(args.image)
       THEN pc' = "crashed" /\ thrown' = MsgImageRequired
       ELSE IF ~Truthy(args.resolution)
       THEN pc' = "crashed" /\ thrown' = MsgResolutionRequired
       ELSE IF ~Truthy(args.output)
       THEN pc' = "crashed" /\ thrown' = MsgOutputRequired
       ELSE pc' = "parse" /\ thrown' = thrown
    /\ UNCHANGED <<entry, args, parsedArgs, resolution, output, envDebug,
                   buffer, metadata, calls, cause, write, files, unhandled>>

\* schema.parse(args): on failure the ZodError is rethrown with the prefix;
\* on success DEBUG is set, the arguments are logged and upscaleImage is
\* called with parsedArgs.resolution and parsedArgs.
SchemaParse ==
    /\ pc = "parse"
    /\ IF SchemaAccepts(args)
       THEN /\ parsedArgs' = [image |-> args.image.text,
                              resolution |-> args.resolution.text,
                              output |-> args.output.text,
                              debug |-> BooleanOrFalse(args.debug),
                              batch |-> BooleanOrFalse(args.batch)]
            /\ envDebug' = parsedArgs'.debug
            /\ calls' = calls \o (IF envDebug' THEN <<Log("Parsed arguments")>>
                                  ELSE <<>>)
            /\ resolution' = args.resolution.text
            /\ pc' = "upscale"
            /\ thrown' = thrown
       ELSE /\ pc' = "crashed"
            /\ thrown' = MsgInvalidArguments
            /\ UNCHANGED <<parsedArgs, envDebug, calls, resolution>>
    /\ UNCHANGED <<entry, args, output, buffer, metadata, cause, write, files,
                   unhandled>>

\* ------------------------------------------ upscaleImage / upscaleVideo

\* A throw inside the try block: the catch clause wraps it and the
\* function's promise rejects.
Reject(msg) ==
    /\ pc' = "rejected"
    /\ thrown' = WrapUpscale(entry, msg)
    /\ cause' = msg

\* The synchronous part: the checks, progressBar.update(0), and the call of
\* resize(width, height).toBuffer().
UpscaleBegin ==
    /\ pc = "upscale"
    /\ LET r == ValidatedResolution(resolution, parsedArgs)
           v == ValidateResolution(r)
           tokens == Split(r)
       IN  IF ~v.ok
           THEN Reject(v.message) /\ calls' = calls
           ELSE /\ calls' = calls \o <<Update(Zero),
                                       Resize(Width(tokens), Height(tokens))>>
                /\ pc' = "resizing"
                /\ UNCHANGED <<thrown, cause>>
    /\ UNCHANGED <<entry, args, parsedArgs, resolution, output, envDebug,
                   buffer, metadata, write, files, unhandled>>

\* The transform throws or its promise rejects.
ResizeFails ==
    /\ pc = "resizing"
    /\ Reject(MsgSharp)
    /\ UNCHANGED <<entry, args, parsedArgs, resolution, output, envDebug,
                   buffer, metadata, calls, write, files, unhandled>>

\* The transform resolves with no buffer: if (!buffer) throw.
ResizeYieldsNothing ==
    /\ pc = "resizing"
    /\ Reject(MsgUndefined(entry))
    /\ UNCHANGED <<entry, args, parsedArgs, resolution, output, envDebug,
                   buffer, metadata, calls, write, files, unhandled>>

\* The transform resolves with a buffer (an empty Buffer is truthy): the
\* callback asks for the metadata.
ResizeYieldsBuffer ==
    /\ pc = "resizing"
    /\ \E b \in Buffers : buffer' = b
    /\ calls' = Append(calls, ReadMetadata)
    /\ pc' = "metadata"
    /\ UNCHANGED <<entry, args, parsedArgs, resolution, output, envDebug,
                   metadata, thrown, cause, write, files, unhandled>>

\* image.metadata() rejects.
MetadataFails ==
    /\ pc = "metadata"
    /\ Reject(MsgSharp)
    /\ UNCHANGED <<entry, args, parsedArgs, resolution, output, envDebug,
                   buffer, metadata, calls, write, files, unhandled>>

\* image.metadata() resolves: the ratio and then 1 are passed to the
\* progress bar and the buffer is returned.
MetadataResolves ==
    /\ pc = "metadata"
    /\ \E m \in MetadataValues : metadata' = m
    /\ calls' = calls \o CompletionUpdates(Ratio(OriginalSize(metadata'),
                                                 buffer.length))
    /\ pc' = "returned"
    /\ UNCHANGED <<entry, args, parsedArgs, resolution, output, envDebug,
                   buffer, thrown, cause, write, files, unhandled>>

\* ------------------------------------------------- index.ts, try block

\* upscaleImage resolved: if (!upscaledImage) throw, else saveImage is
\* called with parsedArgs.output and parsedArgs.
CliAfterUpscale ==
    /\ entry = "cli"
    /\ pc = "returned"
    /\ IF ~buffer.defined
       THEN /\ pc' = "crashed"
            /\ thrown' = WrapProcess(MsgUndefined("image"))
            /\ cause' = MsgUndefined("image")
            /\ output' = output
       ELSE /\ pc' = "save"
            /\ output' = parsedArgs.output
            /\ UNCHANGED <<thrown, cause>>
    /\ UNCHANGED <<entry, args, parsedArgs, resolution, envDebug, buffer,
                   metadata, calls, write, files, unhandled>>

\* upscaleImage or saveImage rejected: the catch clause wraps the error and
\* throws it out of the module.
CliCatch ==
    /\ entry = "cli"
    /\ pc \in {"rejected", "saveRejected"}
    /\ thrown' = WrapProcess(thrown)
    /\ pc' = "crashed"
    /\ UNCHANGED <<entry, args, parsedArgs, resolution, output, envDebug,
                   buffer, metadata, calls, cause, write, files, unhandled>>

\* saveImage resolved: the completion message, and the script ends.
CliFinish ==
    /\ entry = "cli"
    /\ pc = "saveResolved"
    /\ calls' = calls \o DebugLog("Image upscaled and written")
    /\ pc' = "exit"
    /\ UNCHANGED <<entry, args, parsedArgs, resolution, output, envDebug,
                   buffer, metadata, thrown, cause, write, files, unhandled>>

\* ------------------------------------------------------------ saveImage

\* The path Bun.write is given: parsedArgs.output, not the output parameter.
WritePath == parsedArgs.output

\* The synchronous part: without a buffer the throw is wrapped and the
\* promise rejects; otherwise Bun.write is started, its promise is left
\* unawaited, the message is logged and the promise of saveImage resolves.
SaveBegin ==
    /\ pc = "save"
    /\ IF ~buffer.defined
       THEN /\ pc' = "saveRejected"
            /\ thrown' = WrapWrite(MsgUndefined("image"))
            /\ cause' = MsgUndefined("image")
            /\ UNCHANGED <<calls, write>>
       ELSE /\ calls' = (calls \o <<Write(WritePath, buffer)>>)
                            \o DebugLog("Image upscaled and written")
            /\ write' = "pending"
            /\ pc' = "saveResolved"
            /\ UNCHANGED <<thrown, cause>>
    /\ UNCHANGED <<entry, args, parsedArgs, resolution, output, envDebug,
                   buffer, metadata, files, unhandled>>

\* Bun.write resolves: the file holds the buffer; the then callback logs.
WriteSucceeds ==
    /\ write = "pending"
    /\ write' = "done"
    /\ files' = [files EXCEPT ![WritePath] = File(buffer)]
    /\ calls' = calls \o DebugLog("Image written")
    /\ UNCHANGED <<entry, pc, args, parsedArgs, resolution, output, envDebug,
                   buffer, metadata, thrown, cause, unhandled>>

\* Bun.write rejects: the catch callback throws inside a promise chain no
\* one holds, so the new error is an unhandled rejection (which ends a
\* process run); the promise of saveImage is not affected.
WriteFails ==
    /\ write = "pending"
    /\ write' = "failed"
    /\ cause' = MsgBunWrite
    /\ unhandled' = WrapWrite(MsgBunWrite)
    /\ pc' = IF entry = "cli" THEN "crashed" ELSE pc
    /\ UNCHANGED <<entry, args, parsedArgs, resolution, output, envDebug,
                   buffer, metadata, calls, thrown, files>>

\* -------------------------------------------------------- specification

Next ==
    \/ CheckArgs
    \/ SchemaParse
    \/ UpscaleBegin
    \/ ResizeFails
    \/ ResizeYieldsNothing
    \/ ResizeYieldsBuffer
    \/ MetadataFails
    \/ MetadataResolves
    \/ CliAfterUpscale
    \/ CliCatch
    \/ CliFinish
    \/ SaveBegin
    \/ WriteSucceeds
    \/ WriteFails

Spec == Init /\ [][Next]_vars

\* ------------------------------------------------- reading the calls

IsUpdate(e) == e.op = "update"
IsResize(e) == e.op = "resize"
IsWrite(e) == e.op = "write"
IsPipelineCall(e) == e.op \in {"update", "resize", "metadata"}

UpdateCalls == SelectSeq(calls, IsUpdate)
ResizeCalls == SelectSeq(calls, IsResize)
WriteCalls == SelectSeq(calls, IsWrite)
PipelineCalls == SelectSeq(calls, IsPipelineCall)

\* t occurs in s as a run of consecutive segments.
Contains(s, t) ==
    \E i \in 1..(Len(s) - Len(t) + 1) : SubSeq(s, i, i + Len(t) - 1) = t

\* The ratio of an update call is at most that of another.
RatLeq(a, b) == a.x * b.y <= b.x * a.y

DecimalDigits == {"0", "1", "2", "3", "4", "5", "6", "7", "8", "9"}

\* The string has the form <decimal digits>x<decimal digits> and both
\* numbers are greater than zero.
WellFormed(r) ==
    \E i \in 2..(Len(r) - 1) :
        /\ r[i] = "x"
        /\ \A j \in (1..Len(r)) \ {i} : r[j] \in DecimalDigits
        /\ \E j \in 1..(i - 1) : r[j] # "0"
        /\ \E j \in (i + 1)..Len(r) : r[j] # "0"

\* The five reasons a resolution string is refused with.
ValidationReasons == {MsgRequired, MsgNoX, MsgNotTwo, MsgNotInteger, MsgZero}

\* The synchronous part of upscaleImage / upscaleVideo has run.
UpscaleBegun == pc \notin {"start", "parse", "upscale"} /\ entry # "save"

\* upscaleImage / upscaleVideo has returned its buffer.
UpscaleReturned ==
    /\ entry # "save"
    /\ (pc \in {"returned", "save", "saveResolved", "exit"} \/ write # "none")

\* upscaleImage / upscaleVideo has failed.
UpscaleFailed ==
    /\ entry # "save"
    /\ cause # NoError
    /\ write = "none"
    /\ pc \in {"rejected", "crashed"}

\* ---------------------------------------------------------------- C1

\* C1: the structural validation refuses every resolution string that is
\* not <decimal digits>x<decimal digits> with both numbers above zero: once
\* the checks have run on such a string the call has failed with one of the
\* five reasons and nothing was called.
C1_MalformedRejected ==
    (entry \in {"image", "video"} /\ UpscaleBegun
        /\ ~WellFormed(parsedArgs.resolution))
    => (pc = "rejected" /\ cause \in ValidationReasons /\ calls = <<>>)

\* ---------------------------------------------------------------- C2

\* The numbers written in the preset strings, in the order of resolutions.
PresetDimensions ==
    << <<320, 240>>, <<640, 480>>, <<800, 600>>, <<1024, 768>>,
       <<1280, 720>>, <<1280, 800>>, <<1366, 768>>, <<1600, 900>>,
       <<1920, 1080>>, <<2048, 1080>>, <<2560, 1080>>, <<2560, 1440>>,
       <<3440, 1440>>, <<3840, 1600>>, <<3840, 2160>>, <<4096, 2160>>,
       <<5120, 2160>>, <<5120, 2880>>, <<6016, 3384>>, <<6144, 3160>>,
       <<7680, 4320>>, <<8192, 4320>> >>

\* C2: each of the 22 presets passes both layers: a process run given the
\* preset (with an image and an output string and debug and batch booleans
\* or not given) gets past schema.parse with
\* the preset in parsedArgs, and the checks of upscaleImage / upscaleVideo
\* let it through to exactly one resize call whose width and height are the
\* numbers written in the string.
C2_PresetsAccepted ==
    /\ Len(PresetDimensions) = Len(resolutions)
    /\ Len(resolutions) = 22
    /\ \A i \in 1..Len(resolutions) :
        /\ (/\ entry = "cli"
            /\ args.resolution = Str(resolutions[i])
            /\ args.image.kind = "string"
            /\ args.output.kind = "string"
            /\ OptionalBoolean(args.debug)
            /\ OptionalBoolean(args.batch)
            /\ pc \notin {"start", "parse"})
           => parsedArgs.resolution = resolutions[i]
        /\ (UpscaleBegun /\ parsedArgs.resolution = resolutions[i])
           => /\ cause \notin ValidationReasons
              /\ ResizeCalls = <<Resize(PresetDimensions[i][1],
                                        PresetDimensions[i][2])>>

\* A process run with 1920x1080 has resized to 1920 by 1080 and ended.
C2_Witness ==
    /\ entry = "cli"
    /\ pc = "exit"
    /\ parsedArgs.resolution = resolutions[9]
    /\ ResizeCalls = <<Resize(1920, 1080)>>

\* ---------------------------------------------------------------- C3

\* C3 as stated: in a direct call of upscaleImage it is the resolution
\* argument that is checked: when that argument fails a check, the call has
\* failed before any progress update and before the resize call.
C3_ArgumentValidated ==
    (entry = "image" /\ UpscaleBegun /\ ~ValidateResolution(resolution).ok)
    => (pc = "rejected" /\ calls = <<>>)

\* C3 amended: it is parsedArgs.resolution that is checked, whatever the
\* resolution argument holds: when parsedArgs.resolution fails a check the
\* call has failed with that check's message, wrapped, before any progress
\* update and before the resize call.
C3_ConfigValidated ==
    (entry = "image" /\ UpscaleBegun
        /\ ~ValidateResolution(parsedArgs.resolution).ok)
    => /\ pc = "rejected"
       /\ calls = <<>>
       /\ cause = ValidateResolution(parsedArgs.resolution).message
       /\ thrown = WrapUpscale("image", cause)

\* A direct call with a good argument and a bad parsedArgs.resolution failed.
C3_Witness ==
    /\ entry = "image"
    /\ resolution = <<"1", "x", "2">>
    /\ parsedArgs.resolution = <<"a">>
    /\ pc = "rejected"
    /\ cause = MsgNoX

\* ---------------------------------------------------------------- C4

\* C4: a process run whose --resolution is not one of the presets ends with
\* an error at the configuration boundary: nothing is ever called (no
\* progress update, no resize, no write), no file appears, and once past
\* the presence checks the error is the schema's.
C4_NonPresetRejected ==
    (entry = "cli"
        /\ ~(args.resolution.kind = "string" /\ args.resolution.text \in Presets))
    => /\ pc \in {"start", "parse", "crashed"}
       /\ calls = <<>>
       /\ write = "none"
       /\ \A p \in Paths : files[p] = NoFile
       /\ pc = "crashed" => thrown # NoError
       /\ (pc = "crashed" /\ Truthy(args.image) /\ Truthy(args.resolution)
              /\ Truthy(args.output))
          => thrown = MsgInvalidArguments

\* A run given the well-formed non-preset 1x2 ended at schema.parse.
C4_Witness ==
    /\ entry = "cli"
    /\ args.resolution = Str(<<"1", "x", "2">>)
    /\ pc = "crashed"
    /\ thrown = MsgInvalidArguments
    /\ calls = <<>>

\* ---------------------------------------------------------------- C5

\* C5: every value passed to the progress bar lies in [0, 1], and once
\* upscaleImage / upscaleVideo has returned its buffer the last value passed
\* is exactly 1.
C5_ProgressInUnitInterval ==
    /\ \A i \in 1..Len(UpdateCalls) :
        /\ UpdateCalls[i].y > 0
        /\ 0 <= UpdateCalls[i].x
        /\ UpdateCalls[i].x <= UpdateCalls[i].y
    /\ UpscaleReturned
       => /\ UpdateCalls # <<>>
          /\ UpdateCalls[Len(UpdateCalls)] = Update(One)

\* A run returned a buffer larger than the original size: the ratio was
\* clamped, and another run reported a ratio strictly between 0 and 1.
C5_Witness ==
    /\ pc = "returned"
    /\ OriginalSize(metadata) > 0
    /\ buffer.length > OriginalSize(metadata)
    /\ Len(UpdateCalls) = 3
    /\ UpdateCalls[2] = Update(One)

\* ---------------------------------------------------------------- C6

\* C6: when the promise of saveImage has settled the write has succeeded or
\* its failure was raised to the caller: saveImage has resolved only with
\* the write done, and a failed write is an error the caller received.
C6_SaveSettlesWithWrite ==
    /\ (entry \in {"cli", "save"} /\ pc \in {"saveResolved", "exit"})
       => write = "done"
    /\ write = "failed" => thrown # NoError

\* ---------------------------------------------------------------- C7

\* C7: saveImage fails and starts no write when its buffer is missing or
\* empty; otherwise it starts exactly one write, of the buffer, to the
\* output path it was given.
C7_SaveContract ==
    (entry = "save" /\ pc # "save")
    => IF ~buffer.defined \/ buffer.length = 0
       THEN pc = "saveRejected" /\ WriteCalls = <<>> /\ write = "none"
       ELSE WriteCalls = <<Write(output, buffer)>>

\* ---------------------------------------------------------------- C8

\* The ratios of a sequence of update calls never decrease.
NonDecreasing(u) == \A i \in 1..(Len(u) - 1) : RatLeq(u[i], u[i + 1])

\* C8: the progress protocol of upscaleImage / upscaleVideo.  Before the
\* checks have passed nothing is emitted; 0 is emitted before the resize
\* call; a failed run has emitted nothing but possibly that 0; a run that
\* returned has emitted 0, then after the transform and the metadata the
\* computed ratio directly followed by 1; the emitted values never decrease.
C8_ProgressProtocol ==
    /\ NonDecreasing(UpdateCalls)
    /\ (entry # "save" /\ pc \in {"start", "parse", "upscale"})
       => PipelineCalls = <<>>
    /\ pc \in {"resizing", "metadata"}
       => /\ Len(PipelineCalls) \in {2, 3}
          /\ PipelineCalls[1] = Update(Zero)
          /\ PipelineCalls[2].op = "resize"
          /\ UpdateCalls = <<Update(Zero)>>
    /\ UpscaleFailed => UpdateCalls \in {<<>>, <<Update(Zero)>>}
    /\ (UpscaleFailed /\ cause \in ValidationReasons) => UpdateCalls = <<>>
    /\ (UpscaleFailed /\ cause \notin ValidationReasons)
       => UpdateCalls = <<Update(Zero)>>
    /\ UpscaleReturned
       => /\ Len(PipelineCalls) = 5
          /\ PipelineCalls[1] = Update(Zero)
          /\ PipelineCalls[2].op = "resize"
          /\ PipelineCalls[3] = ReadMetadata
          /\ PipelineCalls[4]
                 = Update(Ratio(OriginalSize(metadata), buffer.length))
          /\ PipelineCalls[5] = Update(One)
          /\ UpdateCalls = <<PipelineCalls[1], PipelineCalls[4], PipelineCalls[5]>>
    /\ pc = "returned"
       => SubSeq(calls, Len(calls) - 1, Len(calls))
              = SubSeq(PipelineCalls, 4, 5)

\* A run returned after emitting 0, a ratio strictly between 0 and 1, and 1.
C8_Witness ==
    /\ pc = "returned"
    /\ Len(UpdateCalls) = 3
    /\ 0 < UpdateCalls[2].x
    /\ UpdateCalls[2].x < UpdateCalls[2].y

\* ---------------------------------------------------------------- C9

\* The reference formula: the original size is 0 without metadata or without
\* a numeric size; the denominator is the original size if positive, else
\* the buffer length; the ratio is 1 for a denominator of 0, else the
\* smaller of 1 and length / denominator.
ReferenceOriginalSize(m) == IF m.defined /\ m.numeric THEN m.size ELSE 0
ReferenceRatio(originalSize, length) ==
    LET denominator == IF originalSize > 0 THEN originalSize ELSE length
    IN  IF denominator = 0 THEN <<1, 1>>
        ELSE IF length >= denominator THEN <<1, 1>>
        ELSE <<length, denominator>>

\* Two ratios with positive denominators are the same number.
RatEq(a, b) == a[1] * b[2] = b[1] * a[2]

\* C9: the ratio emitted after the transform is the reference formula's, in
\* the degenerate case too, and computing it raises no error.
C9_RatioFormula ==
    UpscaleReturned
    => /\ Len(UpdateCalls) = 3
       /\ UpdateCalls[2].y > 0
       /\ RatEq(<<UpdateCalls[2].x, UpdateCalls[2].y>>,
                ReferenceRatio(ReferenceOriginalSize(metadata), buffer.length))
       /\ pc = "returned" => (thrown = NoError /\ cause = NoError)

\* The degenerate case happened: no metadata, an empty buffer, ratio 1.
C9_Witness ==
    /\ pc = "returned"
    /\ metadata = NoMetadata
    /\ buffer = Buffer(0)
    /\ UpdateCalls[2] = Update(One)
    /\ thrown = NoError

\* --------------------------------------------------------------- C10

\* C10: every failure inside the pipeline has reached the caller as one
\* error whose message starts with the prefix and contains the message of
\* the original cause.
C10_FailuresWrapped ==
    cause # NoError
    => /\ thrown # NoError
       /\ thrown[1] = Prefix
       /\ Contains(thrown, cause)

\* --------------------------------------------------------------- C11

\* Before call i of the trace, the progress bar was taken from 0 to 1 around
\* one resize call and one metadata read: update 0, resize, metadata,
\* update 1, in this order.
ProgressCompletedBefore(i) ==
    \E a, b, c, d \in 1..(i - 1) :
        /\ a < b /\ b < c /\ c < d
        /\ calls[a] = Update(Zero)
        /\ calls[b].op = "resize"
        /\ calls[c] = ReadMetadata
        /\ calls[d] = Update(One)

\* The messages that report success.
SuccessMessages == {Log("Image upscaled and written")}

\* C11: in a process run Bun.write is started only with the defined buffer
\* upscaleImage returned, after the transform has completed and the progress
\* bar has gone from 0 to 1; and success (the message "Image upscaled and
\* written", or the script reaching its end) is reported only after that
\* progress sequence.
C11_WriteAfterBuffer ==
    entry = "cli"
    => /\ \A i \in 1..Len(calls) :
            calls[i].op = "write"
            => /\ ProgressCompletedBefore(i)
               /\ buffer.defined
               /\ calls[i] = Write(parsedArgs.output, buffer)
       /\ write # "none"
          => /\ Len(WriteCalls) = 1
             /\ Len(UpdateCalls) = 3
             /\ UpdateCalls[3] = Update(One)
       /\ \A i \in 1..Len(calls) :
            calls[i] \in SuccessMessages => ProgressCompletedBefore(i)
       /\ pc = "exit"
          => /\ ProgressCompletedBefore(Len(calls) + 1)
             /\ thrown = NoError
             /\ Len(WriteCalls) = 1

\* A process run with DEBUG set ended normally: the ratio was below 1, the
\* write was started after update 1 and the success message came last.
C11_Witness ==
    /\ entry = "cli"
    /\ pc = "exit"
    /\ envDebug
    /\ UpdateCalls[2].x < UpdateCalls[2].y
    /\ Len(WriteCalls) = 1
    /\ calls[Len(calls)] \in SuccessMessages

====
